---------------------------- MODULE Spec2Model ----------------------------
(***************************************************************************)
(* A model of the Three-Eyed Raven dashboard: the Corvid Shadow page       *)
(* (routes/corvid_shadow.py), the fetchers of utils/raven_logic.py and the *)
(* Raven Probability Index of the home page (routes/home.py).              *)
(*                                                                         *)
(* Numbers.  The program computes in IEEE-754 doubles.  The model keeps    *)
(* the three kinds of value a double can be: a finite number (held as an   *)
(* exact reduced fraction n/d), an infinity, and NaN, with the rules the   *)
(* interpreter and numpy apply to them (a division by zero of numpy        *)
(* values yields inf or NaN, a comparison with NaN is false, min and max   *)
(* keep their first argument unless the second compares smaller/larger).   *)
(* Binary rounding error of finite results is not modelled.  Densities     *)
(* are held in units of 1/pi, so that pi never has to be approximated.     *)
(***************************************************************************)
EXTENDS Integers, Sequences, FiniteSets, TLC

-----------------------------------------------------------------------------
(* Floating point values *)

Abs(i) == IF i < 0 THEN -i ELSE i

RECURSIVE GCD(_, _)
GCD(a, b) == IF b = 0 THEN a ELSE GCD(b, a % b)

NaN == [k |-> "nan", n |-> 0, d |-> 0]
Inf(s) == [k |-> "inf", n |-> s, d |-> 0]

\* The finite number n/d (d # 0), reduced, with the sign in the numerator.
Fin(n, d) ==
    LET g == GCD(Abs(n), Abs(d))
        s == IF d < 0 THEN -1 ELSE 1
    IN  [k |-> "fin", n |-> (s * n) \div g, d |-> Abs(d) \div g]

I(n) == Fin(n, 1)

IsFinite(x) == x.k = "fin"
IsNaN(x) == x.k = "nan"
Sign(x) == IF x.n > 0 THEN 1 ELSE IF x.n < 0 THEN -1 ELSE 0
IsZero(x) == IsFinite(x) /\ x.n = 0

FNeg(x) == IF IsFinite(x) THEN Fin(-x.n, x.d)
           ELSE IF IsNaN(x) THEN NaN ELSE Inf(-x.n)

FAdd(x, y) ==
    IF IsNaN(x) \/ IsNaN(y) THEN NaN
    ELSE IF IsFinite(x) /\ IsFinite(y) THEN Fin(x.n * y.d + y.n * x.d, x.d * y.d)
    ELSE IF IsFinite(x) THEN y
    ELSE IF IsFinite(y) THEN x
    ELSE IF x.n = y.n THEN x ELSE NaN

FSub(x, y) == FAdd(x, FNeg(y))

FMul(x, y) ==
    IF IsNaN(x) \/ IsNaN(y) THEN NaN
    ELSE IF IsFinite(x) /\ IsFinite(y) THEN Fin(x.n * y.n, x.d * y.d)
    ELSE IF IsZero(x) \/ IsZero(y) THEN NaN
    ELSE Inf(Sign(x) * Sign(y))

\* Division of numpy values: x/0 is inf (x # 0) or NaN (x = 0), never a fault.
FDiv(x, y) ==
    IF IsNaN(x) \/ IsNaN(y) THEN NaN
    ELSE IF IsZero(y) THEN (IF IsZero(x) THEN NaN ELSE Inf(Sign(x)))
    ELSE IF IsFinite(x) /\ IsFinite(y) THEN Fin(x.n * y.d, x.d * y.n)
    ELSE IF IsFinite(x) THEN I(0)
    ELSE IF IsFinite(y) THEN Inf(Sign(x) * Sign(y))
    ELSE NaN

\* x < y and x > y; false whenever either side is NaN.
FLt(x, y) ==
    IF IsNaN(x) \/ IsNaN(y) THEN FALSE
    ELSE IF IsFinite(x) /\ IsFinite(y) THEN x.n * y.d < y.n * x.d
    ELSE IF IsFinite(x) THEN y.n > 0
    ELSE IF IsFinite(y) THEN x.n < 0
    ELSE x.n < y.n

FGt(x, y) == FLt(y, x)
FLe(x, y) == ~IsNaN(x) /\ ~IsNaN(y) /\ ~FLt(y, x)
FGe(x, y) == FLe(y, x)

\* abs(x), min(x, y), max(x, y) of the interpreter.
PyAbs(x) == IF IsFinite(x) THEN Fin(Abs(x.n), x.d)
            ELSE IF IsNaN(x) THEN NaN ELSE Inf(1)
PyMin(x, y) == IF FLt(y, x) THEN y ELSE x
PyMax(x, y) == IF FGt(y, x) THEN y ELSE x

Pow10(nd) == IF nd = 0 THEN 1 ELSE IF nd = 1 THEN 10 ELSE IF nd = 2 THEN 100 ELSE 1000

\* round(x, nd): to nd decimals, ties to the even neighbour; NaN and inf pass.
PyRound(x, nd) ==
    IF ~IsFinite(x) THEN x
    ELSE LET p == Pow10(nd)
             a == Abs(x.n) * p
             q == a \div x.d
             r == a % x.d
             m == IF 2 * r > x.d \/ (2 * r = x.d /\ q % 2 = 1) THEN q + 1 ELSE q
         IN  Fin(Sign(x) * m, p)


-----------------------------------------------------------------------------
(* Bird observations (the records of the eBird response) *)

\* A JSON field that is absent or null; a present value v is held as <<v>>.
Null == << >>

\* The most observations one page run receives from the eBird API.
MaxObs == 2

\* Species names are strings; Chars gives a name's characters, on which the
\* keyword match works.
SPECIES == {"American Crow", "Mallard"}
Chars(s) ==
    CASE s = "American Crow" -> <<"A", "m", "e", "r", "i", "c", "a", "n", " ", "C", "r", "o", "w">>
      [] s = "Mallard" -> <<"M", "a", "l", "l", "a", "r", "d">>
      [] s = "Crow" -> <<"C", "r", "o", "w">>
      [] s = "Raven" -> <<"R", "a", "v", "e", "n">>
      [] s = "Corvus" -> <<"C", "o", "r", "v", "u", "s">>
      [] s = "Jackal" -> <<"J", "a", "c", "k", "a", "l">>
      [] s = "Jay" -> <<"J", "a", "y">>
      [] s = "Magpie" -> <<"M", "a", "g", "p", "i", "e">>

\* str.lower() on the letters that occur.
LowerChar(c) ==
    CASE c = "A" -> "a" [] c = "C" -> "c" [] c = "J" -> "j"
      [] c = "M" -> "m" [] c = "R" -> "r" [] OTHER -> c
Lower(w) == [i \in 1..Len(w) |-> LowerChar(w[i])]

\* k in name, for strings as character sequences.
Contains(k, name) ==
    \E i \in 1..(Len(name) - Len(k) + 1) : SubSeq(name, i, i + Len(k) - 1) = k

\* any(k.lower() in name.lower() for k in keywords)
MatchesKeywords(name, keywords) ==
    \E j \in 1..Len(keywords) : Contains(Lower(Chars(keywords[j])), Lower(Chars(name)))

TARGET_KEYWORDS == <<"Crow", "Raven", "Corvus", "Jackal", "Jay", "Magpie">>
CORVID_PATTERN == <<"Crow", "Raven", "Magpie", "Jay", "Corvus">>

\* The species names a keyword list keeps (computed once for the two lists
\* of the program).
TargetNames == {s \in SPECIES : MatchesKeywords(s, TARGET_KEYWORDS)}
PatternNames == {s \in SPECIES : MatchesKeywords(s, CORVID_PATTERN)}
KeptBy(keywords) ==
    IF keywords = TARGET_KEYWORDS THEN TargetNames
    ELSE IF keywords = CORVID_PATTERN THEN PatternNames
    ELSE {s \in SPECIES : MatchesKeywords(s, keywords)}

\* The places of the sightings (a lat, lng pair and a locName each), and the
\* great-circle distance in km of each to the target centre, which is the
\* centre of both zones.
PLACES == {"Lot", "Gate", "Park"}
haversine(loc) == CASE loc = "Lot" -> I(1) [] loc = "Gate" -> I(2) [] loc = "Park" -> I(3)

\* obsDt is "YYYY-MM-DD hh:mm", held as <<day, time>>; the days are numbered in
\* the order of their date strings.
DAYS == {1, 2}
TIMES == {"10:15"}
HOW_MANY == {Null, <<3>>, <<5>>}

\* The counts reported at a place: none (an "X" checklist), or a flock of 3
\* at the two near places and of 5 at the far one.
ReportedAt(loc) == IF loc = "Park" THEN {Null, <<5>>} ELSE {Null, <<3>>}

\* The sightings a response is drawn from: the corvid sightings of every day
\* and place, and one sighting of another species.
ObsUniverse ==
    {o \in [comName : SPECIES, howMany : HOW_MANY, obsDt : DAYS \X TIMES, loc : PLACES] :
        /\ o.howMany \in ReportedAt(o.loc)
        /\ o.comName = "Mallard" => (o.howMany = Null /\ o.obsDt[1] = 1 /\ o.loc = "Park")}

RECURSIVE SetToSeq(_)
SetToSeq(S) == IF S = {} THEN << >>
               ELSE LET x == CHOOSE y \in S : TRUE IN <<x>> \o SetToSeq(S \ {x})

\* The responses of at most n records, without repetition, in one order.
RECURSIVE SubsetsUpTo(_, _)
SubsetsUpTo(U, n) ==
    IF n = 0 THEN {{}}
    ELSE LET P == SubsetsUpTo(U, n - 1)
         IN  P \cup {s \cup {x} : s \in P, x \in U}
Responses(n) == {SetToSeq(s) : s \in SubsetsUpTo(ObsUniverse, n)}

-----------------------------------------------------------------------------
(* routes/corvid_shadow.py: classification and density ratio *)

ZoneA == "Zone A (Base)"
ZoneB == "Zone B (Perimeter)"

\* A variant that counts nothing for a sighting without a count.
CountOfReportedOnly(obs) == IF obs.howMany = Null THEN 0 ELSE obs.howMany[1]

\* obs.get('howMany', 1) or 1
CountOf(obs) == IF obs.howMany = Null \/ obs.howMany[1] = 0 THEN 1 ELSE obs.howMany[1]

Row(zone, obs) ==
    [Zone |-> zone, Species |-> obs.comName, Count |-> CountOf(obs),
     Date |-> obs.obsDt[1], loc |-> obs.loc]

RECURSIVE ProcessZoneA(_, _)
ProcessZoneA(data_a, keywords) ==
    IF data_a = << >> THEN << >>
    ELSE LET obs == Head(data_a)
         IN  (IF obs.comName \in KeptBy(keywords) THEN <<Row(ZoneA, obs)>> ELSE << >>)
             \o ProcessZoneA(Tail(data_a), keywords)

\* A variant that keeps a sighting lying exactly on the base radius.
OutsideBaseInclusive(obs, rad_a) == FGe(haversine(obs.loc), I(rad_a))

\* Only count as 'Suburb' if it is physically OUTSIDE the Base radius
OutsideBase(obs, rad_a) == FGt(haversine(obs.loc), I(rad_a))

RECURSIVE ProcessZoneB(_, _, _)
ProcessZoneB(data_b, rad_a, keywords) ==
    IF data_b = << >> THEN << >>
    ELSE LET obs == Head(data_b)
         IN  (IF obs.comName \in KeptBy(keywords) /\ OutsideBase(obs, rad_a)
              THEN <<Row(ZoneB, obs)>> ELSE << >>)
             \o ProcessZoneB(Tail(data_b), rad_a, keywords)

process_data(data_a, data_b, rad_a, rad_b, keywords) ==
    ProcessZoneA(data_a, keywords) \o ProcessZoneB(data_b, rad_a, keywords)

\* df.groupby(['Date', 'Zone'])['Count'].sum(), one cell; 0 where the group is absent.
RECURSIVE GroupSum(_, _, _)
GroupSum(df, date, zone) ==
    IF df = << >> THEN 0
    ELSE (IF Head(df).Date = date /\ Head(df).Zone = zone THEN Head(df).Count ELSE 0)
         + GroupSum(Tail(df), date, zone)

DatesOf(df) == {df[i].Date : i \in 1..Len(df)}

\* A variant that takes the whole outer disk.
AreaBFullDisk(rad_a, rad_b) == I(rad_b * rad_b)

\* Areas in units of pi km^2.
AreaA(rad_a) == I(rad_a * rad_a)
AreaB(rad_a, rad_b) == FSub(I(rad_b * rad_b), AreaA(rad_a))

\* row['Density_B'] / row['Density_A'] if row['Density_A'] > 0 else 0
RatioOf(density_a, density_b) ==
    IF FGt(density_a, I(0)) THEN FDiv(density_b, density_a) ELSE I(0)

DailyRow(df, date, rad_a, rad_b) ==
    LET a == GroupSum(df, date, ZoneA)
        b == GroupSum(df, date, ZoneB)
        da == FDiv(I(a), AreaA(rad_a))
        db == FDiv(I(b), AreaB(rad_a, rad_b))
    IN  [ZoneA |-> a, ZoneB |-> b, Density_A |-> da, Density_B |-> db,
         Ratio |-> RatioOf(da, db)]

\* The daily frame, as a function of the dates present; the empty function for
\* an empty frame.
calculate_time_series(df, rad_a, rad_b) ==
    [date \in DatesOf(df) |-> DailyRow(df, date, rad_a, rad_b)]

SetMax(S) == CHOOSE x \in S : \A y \in S : y <= x

\* daily_stats['Ratio'] as the sequence of its values, in the order of the dates.
RECURSIVE RatioSeries(_)
RatioSeries(stats) ==
    IF DOMAIN stats = {} THEN << >>
    ELSE LET last == SetMax(DOMAIN stats)
         IN  Append(RatioSeries([d \in DOMAIN stats \ {last} |-> stats[d]]), stats[last].Ratio)

\* pandas skips NaN in mean() and std().
RECURSIVE DropNaN(_)
DropNaN(xs) ==
    IF xs = << >> THEN << >>
    ELSE (IF IsNaN(Head(xs)) THEN << >> ELSE <<Head(xs)>>) \o DropNaN(Tail(xs))

RECURSIVE FSum(_)
FSum(xs) == IF xs = << >> THEN I(0) ELSE FAdd(Head(xs), FSum(Tail(xs)))

\* daily_stats['Ratio'].mean(): NaN when no value is left.
Mean(xs) ==
    LET v == DropNaN(xs)
    IN  IF v = << >> THEN NaN ELSE FDiv(FSum(v), I(Len(v)))

RECURSIVE SumSqDev(_, _)
SumSqDev(xs, m) ==
    IF xs = << >> THEN I(0)
    ELSE FAdd(FMul(FSub(Head(xs), m), FSub(Head(xs), m)), SumSqDev(Tail(xs), m))

\* A variant that divides by the number of values (the population variance).
VarianceOfPopulation(xs) ==
    LET v == DropNaN(xs)
    IN  IF Len(v) < 1 THEN NaN ELSE FDiv(SumSqDev(v, Mean(v)), I(Len(v)))

\* The square of daily_stats['Ratio'].std(): pandas divides by the number of
\* values less one (ddof = 1), and gives NaN for fewer than two values.
Variance(xs) ==
    LET v == DropNaN(xs)
    IN  IF Len(v) < 2 THEN NaN ELSE FDiv(SumSqDev(v, Mean(v)), I(Len(v) - 1))

\* A z-score is a number sgn * sqrt(sq), held by its sign and its square (the
\* standard deviation is a square root); NaN has the square NaN.
ZZero == [sgn |-> 0, sq |-> I(0)]
ZNaN == [sgn |-> 0, sq |-> NaN]
ZUnset == [sgn |-> 0, sq |-> [k |-> "unset", n |-> 0, d |-> 0]]

\* z < c and z > c for a whole number c >= 0; false for NaN.
ZLt(z, c) == ~IsNaN(z.sq) /\ (z.sgn < 1 \/ FLt(z.sq, I(c * c)))
ZGt(z, c) == ~IsNaN(z.sq) /\ z.sgn = 1 /\ FGt(z.sq, I(c * c))

\* A variant that divides whatever the standard deviation is.
ZScoreUnguarded(current, mean, variance) ==
    LET num == FSub(current, mean)
        sq == FDiv(FMul(num, num), variance)
    IN  IF IsNaN(sq) THEN ZNaN ELSE [sgn |-> Sign(num), sq |-> sq]

\* (current_ratio - mean_ratio) / std_ratio if std_ratio > 0 else 0
ZScore(current, mean, variance) ==
    IF FGt(variance, I(0))
    THEN LET num == FSub(current, mean)
         IN  IF IsNaN(num) THEN ZNaN
             ELSE [sgn |-> Sign(num), sq |-> FDiv(FMul(num, num), variance)]
    ELSE ZZero

\* Current Metrics and Volatility Calculation, for a frame that is not empty.
Volatility(stats) ==
    LET current == stats[SetMax(DOMAIN stats)].Ratio
        series == RatioSeries(stats)
    IN  IF Len(series) > 1
        THEN [current_ratio |-> current, mean_ratio |-> Mean(series),
              z_score |-> ZScore(current, Mean(series), Variance(series))]
        ELSE [current_ratio |-> current, mean_ratio |-> current, z_score |-> ZZero]

\* delta_color="green" if z_score < 3.0 else "red"
DeltaColor(z) == IF ZLt(z, 3) THEN "green" ELSE "red"

\* if z_score > 3.0: st.error("CRITICAL ANOMALY ...")
CriticalBanner(z) == ZGt(z, 3)


-----------------------------------------------------------------------------
(* utils/raven_logic.py: the three fetchers *)

\* The largest RMS amplitude of a waveform.
MaxRms == 3
\* The most gates of a radar sweep.
MaxGates == 2

\* A waveform after detrend and band-pass, by its two RMS amplitudes: of the
\* whole window and of its recent half (which holds half the samples, so
\* recent_rms^2 <= 2 * full_rms^2).
Waveforms ==
    {w \in [full_rms : 0..MaxRms, recent_rms : 0..(MaxRms + 1)] :
        w.recent_rms * w.recent_rms <= 2 * w.full_rms * w.full_rms}

InfrasoundUnavailable == [intensity |-> I(0), delta |-> I(0), station |-> "None"]

\* The try block of fetch_infrasound_intel on a received waveform.
InfrasoundIntel(w) ==
    LET full_rms == I(w.full_rms)
        recent_rms == I(w.recent_rms)
        delta == FMul(FDiv(FSub(recent_rms, full_rms), full_rms), I(100))
    IN  [intensity |-> PyRound(recent_rms, 2), delta |-> PyRound(delta, 1),
         station |-> "IU.ANMO"]

\* The gates of a sweep: reflectivity in dBZ and cross-correlation ratio; a
\* masked value is NaN.
GateUniverse ==
    {[Ref |-> I(r), Rho |-> Fin(c, 1000)] : r \in {4, 5, 30, 31}, c \in {900, 920, 960, 1000}}
    \cup {[Ref |-> I(10), Rho |-> NaN]}
Sweeps == {SetToSeq(s) : s \in SubsetsUpTo(GateUniverse, MaxGates)}

\* .dropna() and df[(df['Ref'] >= 5) & (df['Ref'] <= 30)]
IsBirdGate(g) ==
    /\ ~IsNaN(g.Ref) /\ ~IsNaN(g.Rho)
    /\ FGe(g.Ref, I(5)) /\ FLe(g.Ref, I(30))

RECURSIVE SumRho(_)
SumRho(gates) ==
    IF gates = << >> THEN I(0)
    ELSE FAdd(IF IsBirdGate(Head(gates)) THEN Head(gates).Rho ELSE I(0), SumRho(Tail(gates)))

BirdGateCount(gates) == Cardinality({i \in 1..Len(gates) : IsBirdGate(gates[i])})

\* df['Rho'].mean(): NaN for an empty column.
MeanRho(gates) ==
    IF BirdGateCount(gates) = 0 THEN NaN
    ELSE FDiv(SumRho(gates), I(BirdGateCount(gates)))

\* A variant whose fallback is 0, like the fallback of the other two fetchers' fields.
MagneticUnavailableZero == [avg_rho |-> I(0)]

MagneticUnavailable == [avg_rho |-> Fin(985, 1000)]

\* The try block of fetch_magnetic_intel on a downloaded sweep.
MagneticIntel(gates) == [avg_rho |-> PyRound(MeanRho(gates), 3)]

\* df[df['comName'].str.contains("Crow|Raven|Magpie|Jay|Corvus", case=False, na=False)]
RECURSIVE FilterCorvids(_)
FilterCorvids(res) ==
    IF res = << >> THEN << >>
    ELSE (IF Head(res).comName \in KeptBy(CORVID_PATTERN) THEN <<Head(res)>> ELSE << >>)
         \o FilterCorvids(Tail(res))

BASE_KM == 2
\* 'dist': 10, the radius of the query
QUERY_KM == 10

\* df[...]['howMany'].fillna(1).sum() over the rows at most (inner) or more
\* than (not inner) BASE_KM away.
RECURSIVE HowManySum(_, _)
HowManySum(df, inner) ==
    IF df = << >> THEN 0
    ELSE LET r == Head(df)
             within == FLe(haversine(r.loc), I(BASE_KM))
         IN  (IF within = inner THEN (IF r.howMany = Null THEN 1 ELSE r.howMany[1]) ELSE 0)
             + HowManySum(Tail(df), inner)

CorvidUnavailable == [ratio |-> I(1), total |-> 0, df |-> << >>]

\* The frame of a response has no 'comName' column when the response holds no
\* record, and no 'howMany' column when no record carries a count: reading
\* the column then raises KeyError, which the except clause catches.
CorvidRaises(res) ==
    \/ res = << >>
    \/ /\ FilterCorvids(res) # << >>
       /\ \A i \in 1..Len(res) : res[i].howMany = Null

\* sub_c / base_c if base_c > 0 else 1.0
CountRatio(sub_c, base_c) == IF base_c > 0 THEN FDiv(I(sub_c), I(base_c)) ELSE I(1)

\* The try block of fetch_corvid_intel on a received response.
CorvidIntel(res) ==
    LET df == FilterCorvids(res)
        base_c == HowManySum(df, TRUE)
        sub_c == HowManySum(df, FALSE)
    IN  IF df = << >> THEN [ratio |-> I(1), total |-> 0, df |-> df]
        ELSE [ratio |-> PyRound(CountRatio(sub_c, base_c), 2), total |-> base_c + sub_c,
              df |-> df]

-----------------------------------------------------------------------------
(* routes/home.py: the Raven Probability Index *)

\* min(abs(infra['delta']) / 60, 1.0)
InfraScore(delta) == PyMin(FDiv(PyAbs(delta), I(60)), I(1))

\* A variant without the lower clamp.
MagScoreNoFloor(avg_rho) == PyMin(FDiv(FSub(Fin(98, 100), avg_rho), Fin(8, 100)), I(1))

\* min(max(0, (0.98 - mag['avg_rho']) / 0.08), 1.0)
MagScore(avg_rho) ==
    PyMin(PyMax(I(0), FDiv(FSub(Fin(98, 100), avg_rho), Fin(8, 100))), I(1))

\* min(max(0, (corvid['ratio'] - 1.0) / 2.0), 1.0)
CorvidScore(ratio) == PyMin(PyMax(I(0), FDiv(FSub(ratio, I(1)), I(2))), I(1))

\* A variant that weights the biological channel like the acoustic one.
RpiRawHeavy(i, m, c) ==
    FAdd(FAdd(FMul(i, Fin(35, 100)), FMul(m, Fin(40, 100))), FMul(c, Fin(35, 100)))

\* (infra_score * 0.35) + (mag_score * 0.40) + (corvid_score * 0.25)
RpiRaw(i, m, c) ==
    FAdd(FAdd(FMul(i, Fin(35, 100)), FMul(m, Fin(40, 100))), FMul(c, Fin(25, 100)))

RpiPercent(i, m, c) == PyRound(FMul(RpiRaw(i, m, c), I(100)), 1)

\* A variant whose boundaries belong to the lower tier.
RpiLabelLowerTier(percent) ==
    IF FLe(percent, I(30)) THEN "STABLE"
    ELSE IF FLe(percent, I(70)) THEN "ELEVATED ANOMALY"
    ELSE "CRITICAL DISRUPTION"

\* if rpi_percent < 30: ... elif rpi_percent < 70: ... else: ...
RpiLabel(percent) ==
    IF FLt(percent, I(30)) THEN "STABLE"
    ELSE IF FLt(percent, I(70)) THEN "ELEVATED ANOMALY"
    ELSE "CRITICAL DISRUPTION"


-----------------------------------------------------------------------------
(* The running application: one page script at a time *)

VARIABLES
    pc,                 \* where the running page script stands
    za_rad, zb_rad,     \* corvid_shadow.py: the two radius sliders, in km
    raw_a, raw_b,       \* corvid_shadow.py: the two eBird responses
    df_clean,           \* corvid_shadow.py: the classified rows
    daily_stats,        \* corvid_shadow.py: the daily frame
    latest,             \* corvid_shadow.py: the densities of the latest date
    current_ratio,      \* corvid_shadow.py: the ratio of the latest date
    mean_ratio,         \* corvid_shadow.py: the mean of the daily ratios
    z_score,            \* corvid_shadow.py: the volatility z-score
    delta_color,        \* corvid_shadow.py: the colour of the z-score metric
    banner,             \* corvid_shadow.py: the CRITICAL ANOMALY st.error is shown
    bases,              \* main.py: st.session_state.bases
    target_base,        \* main.py: st.session_state.target_base
    selected,           \* main.py: what the sidebar selectbox returned
    active_lat, active_lon, active_radar,   \* main.py: st.session_state.active_*
    page,               \* main.py: the page pg.run() ran
    seen,               \* what that page read from st.session_state
    infra, mag, corvid, \* home.py: what the three fetchers returned
    outage,             \* home.py: the fetchers that took their except branch
    infra_score, mag_score, corvid_score,
    rpi_percent, rpi_label

shadowVars == <<za_rad, zb_rad, raw_a, raw_b, df_clean, daily_stats, latest, current_ratio,
                mean_ratio, z_score, delta_color, banner>>
metricVars == <<latest, current_ratio, mean_ratio, z_score, delta_color, banner>>
sessionVars == <<bases, target_base, selected, active_lat, active_lon, active_radar, page, seen>>
homeVars == <<infra, mag, corvid, outage, infra_score, mag_score, corvid_score, rpi_percent, rpi_label>>
vars == <<pc, shadowVars, homeVars, sessionVars>>

\* A name the script has not assigned yet.
Unset == [k |-> "unset", n |-> 0, d |-> 0]

\* The slider positions taken: whole kilometres of Zone A's 0.5 .. 5.0 and of
\* Zone B's 2.0 .. 10.0.
ZA_RADII == {2, 3}
ZB_RADII == {2, 3, 5}

AllResponses == Responses(MaxObs)
ResponsesUpTo == [n \in 0..MaxObs |-> {r \in AllResponses : Len(r) <= n}]

ShadowUnset ==
    /\ za_rad = 0 /\ zb_rad = 0
    /\ raw_a = << >> /\ raw_b = << >>
    /\ df_clean = << >> /\ daily_stats = << >>
    /\ latest = Unset /\ current_ratio = Unset
    /\ mean_ratio = Unset /\ z_score = ZUnset
    /\ delta_color = "unset" /\ banner = FALSE

HomeUnset ==
    /\ infra = Unset /\ mag = Unset /\ corvid = Unset /\ outage = {}
    /\ infra_score = Unset /\ mag_score = Unset /\ corvid_score = Unset
    /\ rpi_percent = Unset /\ rpi_label = "unset"

\* main.py's fallback table of bases, in the order of its keys.
FallbackBases ==
    << [Base |-> "Pentagon", Latitude |-> Fin(388710, 10000),
        Longitude |-> FNeg(Fin(770560, 10000)), Radar_ID |-> "KLWX"],
       [Base |-> "Whiteman AFB", Latitude |-> Fin(387303, 10000),
        Longitude |-> FNeg(Fin(935479, 10000)), Radar_ID |-> "KEAX"] >>

\* A data/bases.csv that has no Radar_ID column.
CsvBases ==
    << [Base |-> "Offutt AFB", Latitude |-> Fin(411183, 10000),
        Longitude |-> FNeg(Fin(959126, 10000))],
       [Base |-> "Pentagon", Latitude |-> Fin(388710, 10000),
        Longitude |-> FNeg(Fin(770560, 10000))],
       [Base |-> "Whiteman AFB", Latitude |-> Fin(387303, 10000),
        Longitude |-> FNeg(Fin(935479, 10000))] >>

BASE_TABLES == {FallbackBases, CsvBases}

\* list(st.session_state.bases.keys())
Keys(table) == [i \in 1..Len(table) |-> table[i].Base]
KeySet(table) == {table[i].Base : i \in 1..Len(table)}

\* st.session_state.bases[name]
BaseNamed(table, name) == table[CHOOSE i \in 1..Len(table) : table[i].Base = name]

\* A variant that reads the first base of the table.
ActiveOfFirst(table, name) ==
    [lat |-> table[1].Latitude, lon |-> table[1].Longitude,
     radar |-> IF "Radar_ID" \in DOMAIN table[1] THEN table[1].Radar_ID ELSE "KLWX"]

\* bases[name]['Latitude'], bases[name]['Longitude'], bases[name].get('Radar_ID', 'KLWX')
ActiveOf(table, name) ==
    LET base == BaseNamed(table, name)
    IN  [lat |-> base.Latitude, lon |-> base.Longitude,
         radar |-> IF "Radar_ID" \in DOMAIN base THEN base.Radar_ID ELSE "KLWX"]

\* The pages of st.navigation.
PAGES == {"home", "infrasound_flush", "magnetic_static", "corvid_shadow"}

NothingSeen == [base |-> "unset", lat |-> Unset, lon |-> Unset, radar |-> "unset"]

\* A session main.py has not run in yet.
SessionEmpty ==
    /\ bases = << >> /\ target_base = "unset" /\ selected = "unset"
    /\ active_lat = Unset /\ active_lon = Unset /\ active_radar = "unset"
    /\ page = "unset" /\ seen = NothingSeen

\* The session as main.py leaves it for a page, the fallback table's first
\* base being the target.
SessionSynced ==
    /\ bases = FallbackBases /\ target_base = Keys(FallbackBases)[1]
    /\ selected = target_base
    /\ active_lat = ActiveOf(bases, target_base).lat
    /\ active_lon = ActiveOf(bases, target_base).lon
    /\ active_radar = ActiveOf(bases, target_base).radar
    /\ page = "unset" /\ seen = NothingSeen

Init == pc = "main" /\ ShadowUnset /\ HomeUnset /\ SessionSynced

\* corvid_shadow.py, the sidebar: the user sets the two sliders.
SetGeofence ==
    /\ pc = "main"
    /\ \E a \in ZA_RADII, b \in ZB_RADII : za_rad' = a /\ zb_rad' = b
    /\ pc' = "shadow_fetch"
    /\ UNCHANGED <<raw_a, raw_b, df_clean, daily_stats, metricVars, homeVars, sessionVars>>

\* corvid_shadow.py, 1. Fetch: the two queries; a failed query returns [].
FetchEbird ==
    /\ pc = "shadow_fetch"
    /\ \E a \in AllResponses :
          \E b \in ResponsesUpTo[MaxObs - Len(a)] : raw_a' = a /\ raw_b' = b
    /\ pc' = "shadow_process"
    /\ UNCHANGED <<za_rad, zb_rad, df_clean, daily_stats, metricVars, homeVars, sessionVars>>

\* corvid_shadow.py, 2. Process
ProcessData ==
    /\ pc = "shadow_process"
    /\ df_clean' = process_data(raw_a, raw_b, za_rad, zb_rad, TARGET_KEYWORDS)
    /\ pc' = "shadow_analytics"
    /\ UNCHANGED <<za_rad, zb_rad, raw_a, raw_b, daily_stats, metricVars, homeVars, sessionVars>>

\* corvid_shadow.py, 3. Analytics, and the z-score metric of the dashboard's
\* first row with the banner under it.
Analytics ==
    /\ pc = "shadow_analytics"
    /\ IF df_clean # << >>
       THEN LET stats == calculate_time_series(df_clean, za_rad, zb_rad)
                latest_date == SetMax(DOMAIN stats)
                v == Volatility(stats)
            IN  /\ daily_stats' = stats
                /\ latest' = [Density_A |-> stats[latest_date].Density_A,
                              Density_B |-> stats[latest_date].Density_B]
                /\ current_ratio' = v.current_ratio
                /\ mean_ratio' = v.mean_ratio
                /\ z_score' = v.z_score
       ELSE /\ daily_stats' = daily_stats
            /\ latest' = [Density_A |-> I(0), Density_B |-> I(0)]
            /\ current_ratio' = I(0)
            /\ mean_ratio' = mean_ratio
            /\ z_score' = ZZero
    /\ delta_color' = DeltaColor(z_score')
    /\ banner' = CriticalBanner(z_score')
    /\ pc' = "shadow_done"
    /\ UNCHANGED <<za_rad, zb_rad, raw_a, raw_b, df_clean, homeVars, sessionVars>>

\* home.py: infra = fetch_infrasound_intel(...)
FetchInfrasound ==
    /\ pc = "main"
    /\ \/ infra' = InfrasoundUnavailable /\ outage' = outage \cup {"infra"}
       \/ \E w \in Waveforms : infra' = InfrasoundIntel(w) /\ outage' = outage
    /\ pc' = "home_mag"
    /\ UNCHANGED <<mag, corvid, infra_score, mag_score, corvid_score, rpi_percent,
                   rpi_label, shadowVars, sessionVars>>

\* home.py: mag = fetch_magnetic_intel(...)
FetchMagnetic ==
    /\ pc = "home_mag"
    /\ \/ mag' = MagneticUnavailable /\ outage' = outage \cup {"mag"}
       \/ \E gates \in Sweeps : mag' = MagneticIntel(gates) /\ outage' = outage
    /\ pc' = "home_corvid"
    /\ UNCHANGED <<infra, corvid, infra_score, mag_score, corvid_score, rpi_percent,
                   rpi_label, shadowVars, sessionVars>>

\* home.py: corvid = fetch_corvid_intel(...)
FetchCorvid ==
    /\ pc = "home_corvid"
    /\ \/ corvid' = CorvidUnavailable /\ outage' = outage \cup {"corvid"}
       \/ \E res \in AllResponses :
             IF CorvidRaises(res)
             THEN corvid' = CorvidUnavailable /\ outage' = outage \cup {"corvid"}
             ELSE corvid' = CorvidIntel(res) /\ outage' = outage
    /\ pc' = "home_rpi"
    /\ UNCHANGED <<infra, mag, infra_score, mag_score, corvid_score, rpi_percent,
                   rpi_label, shadowVars, sessionVars>>

\* home.py: UNIFIED INDICATOR CALCULATION (RPI)
ComputeRPI ==
    /\ pc = "home_rpi"
    /\ infra_score' = InfraScore(infra.delta)
    /\ mag_score' = MagScore(mag.avg_rho)
    /\ corvid_score' = CorvidScore(corvid.ratio)
    /\ rpi_percent' = RpiPercent(infra_score', mag_score', corvid_score')
    /\ rpi_label' = RpiLabel(rpi_percent')
    /\ pc' = "home_done"
    /\ UNCHANGED <<infra, mag, corvid, outage, shadowVars, sessionVars>>

\* The script has run to its end; the next run starts from nothing.
EndRun ==
    /\ pc \in {"shadow_done", "home_done"}
    /\ pc' = "main"
    /\ za_rad' = 0 /\ zb_rad' = 0
    /\ raw_a' = << >> /\ raw_b' = << >>
    /\ df_clean' = << >> /\ daily_stats' = << >>
    /\ latest' = Unset /\ current_ratio' = Unset
    /\ mean_ratio' = Unset /\ z_score' = ZUnset
    /\ delta_color' = "unset" /\ banner' = FALSE
    /\ infra' = Unset /\ mag' = Unset /\ corvid' = Unset /\ outage' = {}
    /\ infra_score' = Unset /\ mag_score' = Unset /\ corvid_score' = Unset
    /\ rpi_percent' = Unset /\ rpi_label' = "unset"
    /\ UNCHANGED sessionVars

Next ==
    \/ SetGeofence \/ FetchEbird \/ ProcessData \/ Analytics
    \/ FetchInfrasound \/ FetchMagnetic \/ FetchCorvid \/ ComputeRPI
    \/ EndRun

Spec == Init /\ [][Next]_vars

-----------------------------------------------------------------------------
(* main.py: the session state, one script run after the other *)

InitMain == pc = "main_init" /\ ShadowUnset /\ HomeUnset /\ SessionEmpty

\* main.py, DATA INITIALIZATION: what the session lacks is set.
InitSession ==
    /\ pc = "main_init"
    /\ IF bases = << >> THEN bases' \in BASE_TABLES ELSE bases' = bases
    /\ target_base' = IF target_base = "unset" THEN Keys(bases')[1] ELSE target_base
    /\ pc' = "main_sidebar"
    /\ UNCHANGED <<selected, active_lat, active_lon, active_radar, page, seen,
                   shadowVars, homeVars>>

\* main.py, SIDEBAR TARGETING: the selectbox returns one of the keys.
SelectBase ==
    /\ pc = "main_sidebar"
    /\ selected' \in KeySet(bases)
    /\ pc' = "main_selected"
    /\ UNCHANGED <<bases, target_base, active_lat, active_lon, active_radar, page, seen,
                   shadowVars, homeVars>>

\* main.py: if selected != st.session_state.target_base: ... st.rerun()
Retarget ==
    /\ pc = "main_selected"
    /\ selected # target_base
    /\ target_base' = selected
    /\ active_lat' = ActiveOf(bases, selected).lat
    /\ active_lon' = ActiveOf(bases, selected).lon
    /\ active_radar' = ActiveOf(bases, selected).radar
    /\ pc' = "main_init"
    /\ UNCHANGED <<bases, selected, page, seen, shadowVars, homeVars>>

\* main.py: Sync current base data to state for sub-page access
SyncState ==
    /\ pc = "main_selected"
    /\ selected = target_base
    /\ active_lat' = ActiveOf(bases, target_base).lat
    /\ active_lon' = ActiveOf(bases, target_base).lon
    /\ active_radar' = ActiveOf(bases, target_base).radar
    /\ pc' = "main_navigation"
    /\ UNCHANGED <<bases, target_base, selected, page, seen, shadowVars, homeVars>>

\* main.py, NAVIGATION: pg.run() runs the page the user is on, which reads
\* the session state.
RunPage ==
    /\ pc = "main_navigation"
    /\ page' \in PAGES
    /\ seen' = [base |-> target_base, lat |-> active_lat, lon |-> active_lon,
                radar |-> active_radar]
    /\ pc' = "main_done"
    /\ UNCHANGED <<bases, target_base, selected, active_lat, active_lon, active_radar,
                   shadowVars, homeVars>>

\* The user touches a widget: the script runs again on the same session.
Rerun ==
    /\ pc = "main_done"
    /\ pc' = "main_init"
    /\ UNCHANGED <<sessionVars, shadowVars, homeVars>>

NextMain == InitSession \/ SelectBase \/ Retarget \/ SyncState \/ RunPage \/ Rerun

SpecMain == InitMain /\ [][NextMain]_vars

-----------------------------------------------------------------------------
(* corvid_shadow.py: the volatility of a series of daily ratios *)

\* The longest series of daily ratios drawn, and the ratios drawn.
MaxSeries == 5
RATIOS == {0, 1, 5}

\* Two series of thirteen days: one day far off twelve others.
LONG_SERIES ==
    { <<0, 0, 0, 4, 4, 4, 4, 4, 4, 4, 4, 4, 16>>,
      <<4, 4, 4, 4, 4, 4, 4, 4, 4, 4, 4, 4, 16>> }

\* A daily frame of which the Ratio column is kept, dated 1, 2, ...
RatioFrame(series) == [date \in 1..Len(series) |-> [Ratio |-> I(series[date])]]

RatioFrames ==
    {RatioFrame(series) :
        series \in UNION {[1..n -> RATIOS] : n \in 0..MaxSeries} \cup LONG_SERIES}

InitVolatility ==
    /\ pc = "shadow_volatility"
    /\ za_rad = 0 /\ zb_rad = 0
    /\ raw_a = << >> /\ raw_b = << >> /\ df_clean = << >>
    /\ daily_stats \in RatioFrames
    /\ latest = Unset /\ current_ratio = Unset
    /\ mean_ratio = Unset /\ z_score = ZUnset
    /\ delta_color = "unset" /\ banner = FALSE
    /\ HomeUnset /\ SessionSynced

\* corvid_shadow.py, Current Metrics and Volatility Calculation on the daily
\* frame, and the z-score metric with the banner under it.
ScoreVolatility ==
    /\ pc = "shadow_volatility"
    /\ IF daily_stats # << >>
       THEN LET v == Volatility(daily_stats)
            IN  /\ current_ratio' = v.current_ratio
                /\ mean_ratio' = v.mean_ratio
                /\ z_score' = v.z_score
       ELSE /\ current_ratio' = I(0)
            /\ mean_ratio' = mean_ratio
            /\ z_score' = ZZero
    /\ delta_color' = DeltaColor(z_score')
    /\ banner' = CriticalBanner(z_score')
    /\ pc' = "shadow_scored"
    /\ UNCHANGED <<za_rad, zb_rad, raw_a, raw_b, df_clean, daily_stats, latest,
                   homeVars, sessionVars>>

NextVolatility == ScoreVolatility

SpecVolatility == InitVolatility /\ [][NextVolatility]_vars


-----------------------------------------------------------------------------
(* Properties of the Corvid Shadow page *)

\* The rows of df_clean exist from the end of step 2 on.
Processed == pc \in {"shadow_analytics", "shadow_done"}
RowsOf(df) == {df[i] : i \in 1..Len(df)}
IsCorvid(obs) == obs.comName \in KeptBy(TARGET_KEYWORDS)

\* C1: process_data never emits a 'Zone B (Perimeter)' row for an outer-set
\* observation whose distance to the zone centre is at most radius_inner: no
\* Zone B row lies within the radius, and an outer-set observation within it
\* (exactly on it included) has no Zone B row.
C1_NoPerimeterRowInsideBase ==
    Processed =>
        /\ \A r \in RowsOf(df_clean) :
              r.Zone = ZoneB => ~FLe(haversine(r.loc), I(za_rad))
        /\ \A i \in 1..Len(raw_b) :
              FLe(haversine(raw_b[i].loc), I(za_rad)) => Row(ZoneB, raw_b[i]) \notin RowsOf(df_clean)

\* C1's case: with radius_inner < radius_outer, a corvid of the outer set lies
\* exactly on the inner radius, and another one was labelled Zone B.
C1_Witness ==
    /\ Processed /\ za_rad < zb_rad
    /\ \E i \in 1..Len(raw_b) :
          IsCorvid(raw_b[i]) /\ haversine(raw_b[i].loc) = I(za_rad)
    /\ \E r \in RowsOf(df_clean) : r.Zone = ZoneB

\* The observation a row was made of: the row without its zone label.
Sighting(r) == [Species |-> r.Species, Count |-> r.Count, Date |-> r.Date, loc |-> r.loc]

\* C2: no observation appears twice in the output of process_data, neither
\* twice under one zone label nor once as Zone A and once as Zone B.
C2_NoObservationTwice ==
    Processed =>
        \A i, j \in 1..Len(df_clean) :
            i # j => Sighting(df_clean[i]) # Sighting(df_clean[j])

\* C3: in every daily record the ratio is exactly 0 when density_A is 0 and
\* is a non-negative number otherwise.
C3_RatioZeroOrNonNegative ==
    pc = "shadow_done" =>
        \A date \in DOMAIN daily_stats :
            IF daily_stats[date].Density_A = I(0)
            THEN daily_stats[date].Ratio = I(0)
            ELSE FGe(daily_stats[date].Ratio, I(0))

\* C4: radii with radius_outer <= radius_inner are rejected before any
\* density is computed: once the analytics have run, either
\* radius_inner < radius_outer or no daily record exists.
C4_DegenerateRadiiRejected ==
    pc = "shadow_done" => (za_rad < zb_rad \/ daily_stats = << >>)


-----------------------------------------------------------------------------
(* Properties of the home page *)

Fetched == pc \in {"home_rpi", "home_done"}
AllChannels == {"infra", "mag", "corvid"}

\* C5: whatever the three fetchers met, failure or degenerate data, the delta,
\* avg_rho and ratio handed to the normalizers are finite numbers, and so is
\* rpi_percent.
C5_FiniteMetrics ==
    /\ Fetched => IsFinite(infra.delta) /\ IsFinite(mag.avg_rho) /\ IsFinite(corvid.ratio)
    /\ pc = "home_done" => IsFinite(rpi_percent)

C7_LabelTiers ==
    pc = "home_done" =>
        /\ rpi_label \in {"STABLE", "ELEVATED ANOMALY", "CRITICAL DISRUPTION"}
        /\ IsFinite(rpi_percent) =>
              /\ FLt(rpi_percent, I(30)) => rpi_label = "STABLE"
              /\ (FGe(rpi_percent, I(30)) /\ FLt(rpi_percent, I(70))) =>
                    rpi_label = "ELEVATED ANOMALY"
              /\ FGe(rpi_percent, I(70)) => rpi_label = "CRITICAL DISRUPTION"

\* C7's case: an index of exactly 30.0.
C7_Witness == pc = "home_done" /\ rpi_percent = I(30)

\* Inputs to compare against: deltas -130 .. 130, correlations 0.85 .. 1.05,
\* ratios -1 .. 4.
ProbeDeltas == {I(5 * n) : n \in -26..26}
ProbeRhos == {Fin(n, 100) : n \in 85..105}
ProbeRatios == {Fin(n, 4) : n \in -4..16}

InUnit(x) == FGe(x, I(0)) /\ FLe(x, I(1))

\* The scores of the inputs to compare against.
InfraScores == [x \in ProbeDeltas |-> InfraScore(x)]
MagScores == [x \in ProbeRhos |-> MagScore(x)]
CorvidScores == [x \in ProbeRatios |-> CorvidScore(x)]
ProbeScoresInUnit ==
    /\ \A x \in ProbeDeltas : InUnit(InfraScores[x])
    /\ \A x \in ProbeRhos : InUnit(MagScores[x])
    /\ \A x \in ProbeRatios : InUnit(CorvidScores[x])

\* C8: each normalizer returns a score in [0, 1] for every finite input, the
\* acoustic one non-decreasing in |delta| and 1 from 60 on, the
\* electromagnetic one non-increasing in the correlation (0 from 0.98 up, 1
\* from 0.90 down), the biological one non-decreasing in the ratio (0 up to
\* 1.0, 1 from 3.0 on).
C8_NormalizersClampedMonotonic ==
    pc = "home_done" =>
        /\ ProbeScoresInUnit
        /\ IsFinite(infra.delta) =>
              /\ InUnit(infra_score)
              /\ FGe(PyAbs(infra.delta), I(60)) => infra_score = I(1)
              /\ \A x \in ProbeDeltas :
                    /\ FGe(PyAbs(x), PyAbs(infra.delta)) => FGe(InfraScores[x], infra_score)
                    /\ FLe(PyAbs(x), PyAbs(infra.delta)) => FLe(InfraScores[x], infra_score)
        /\ IsFinite(mag.avg_rho) =>
              /\ InUnit(mag_score)
              /\ FGe(mag.avg_rho, Fin(98, 100)) => mag_score = I(0)
              /\ FLe(mag.avg_rho, Fin(90, 100)) => mag_score = I(1)
              /\ \A x \in ProbeRhos :
                    /\ FGe(x, mag.avg_rho) => FLe(MagScores[x], mag_score)
                    /\ FLe(x, mag.avg_rho) => FGe(MagScores[x], mag_score)
        /\ IsFinite(corvid.ratio) =>
              /\ InUnit(corvid_score)
              /\ FLe(corvid.ratio, I(1)) => corvid_score = I(0)
              /\ FGe(corvid.ratio, I(3)) => corvid_score = I(1)
              /\ \A x \in ProbeRatios :
                    /\ FGe(x, corvid.ratio) => FGe(CorvidScores[x], corvid_score)
                    /\ FLe(x, corvid.ratio) => FLe(CorvidScores[x], corvid_score)

\* C8's case: a negative delta beyond saturation, a correlation above the
\* nominal 0.98 and a ratio beyond 3.0 have been scored.
C8_Witness ==
    /\ pc = "home_done"
    /\ FLt(infra.delta, I(-60)) /\ infra_score = I(1)
    /\ FGt(mag.avg_rho, Fin(98, 100)) /\ mag_score = I(0)
    /\ FGt(corvid.ratio, I(3)) /\ corvid_score = I(1)

\* C9: the index is (35 * infra + 40 * mag + 25 * corvid) to one decimal, the
\* weights adding up to 100; it lies in [0, 100] for scores in [0, 1], is 0.0
\* and STABLE for scores (0, 0, 0), and 100.0 and CRITICAL DISRUPTION for
\* scores (1, 1, 1).
C9_WeightedSum ==
    (pc = "home_done" /\ InUnit(infra_score) /\ InUnit(mag_score) /\ InUnit(corvid_score)) =>
        /\ rpi_percent =
              PyRound(FAdd(FAdd(FMul(I(35), infra_score), FMul(I(40), mag_score)),
                           FMul(I(25), corvid_score)), 1)
        /\ FGe(rpi_percent, I(0)) /\ FLe(rpi_percent, I(100))
        /\ (infra_score = I(0) /\ mag_score = I(0) /\ corvid_score = I(0)) =>
              rpi_percent = I(0) /\ rpi_label = "STABLE"
        /\ (infra_score = I(1) /\ mag_score = I(1) /\ corvid_score = I(1)) =>
              rpi_percent = I(100) /\ rpi_label = "CRITICAL DISRUPTION"

\* C9's case: the index of the scores (1, 1, 1).
C9_Witness ==
    pc = "home_done" /\ infra_score = I(1) /\ mag_score = I(1) /\ corvid_score = I(1)

\* Of the sightings the home page counted, those the inner query of the
\* Corvid Shadow page returns.
RECURSIVE WithinBase(_)
WithinBase(df) ==
    IF df = << >> THEN << >>
    ELSE (IF FLe(haversine(Head(df).loc), I(BASE_KM)) THEN <<Head(df)>> ELSE << >>)
         \o WithinBase(Tail(df))

\* The ratio calculate_time_series gives for sightings of one date, with the
\* radii BASE_KM and QUERY_KM.
DensityRatioOf(df) ==
    LET rows == process_data(WithinBase(df), df, BASE_KM, QUERY_KM, TARGET_KEYWORDS)
        stats == calculate_time_series(rows, BASE_KM, QUERY_KM)
    IN  IF rows = << >> THEN I(0) ELSE stats[SetMax(DOMAIN stats)].Ratio

OneDate(df) == \A i, j \in 1..Len(df) : df[i].obsDt[1] = df[j].obsDt[1]

\* C10: the ratio the home page normalizes equals, to its two decimals, the
\* density ratio calculate_time_series gives for the same sightings and
\* radii, the value for no base activity included.
C10_RatioIsDensityRatio ==
    (Fetched /\ corvid.df # << >> /\ OneDate(corvid.df)) =>
        corvid.ratio = PyRound(DensityRatioOf(corvid.df), 2)

-----------------------------------------------------------------------------
(* Properties of the daily frame and of its volatility *)

\* The ratio of two densities, from the counts and the radii in whole numbers:
\* (cB / (rb^2 - ra^2)) / (cA / ra^2), the factor pi cancelling.
DonutRatio(cA, cB, ra, rb) == Fin(cB * ra * ra, cA * (rb * rb - ra * ra))

\* C11: for every date with a Zone A count cA > 0 and a Zone B count cB, the
\* ratio is (cB / (pi*r_outer^2 - pi*r_inner^2)) / (cA / (pi*r_inner^2)), the
\* donut's area and never the outer disk's: 20/63 for r_inner = 2, r_outer = 5,
\* cA = 3, cB = 5.  Where the donut has no area the quotient is no finite number.
C11_RatioOverDonutArea ==
    pc = "shadow_done" =>
        \A date \in DOMAIN daily_stats :
            LET row == daily_stats[date]
            IN  row.ZoneA > 0 =>
                    /\ za_rad # zb_rad =>
                            row.Ratio = DonutRatio(row.ZoneA, row.ZoneB, za_rad, zb_rad)
                    /\ za_rad = zb_rad => ~IsFinite(row.Ratio)
                    /\ (za_rad = 2 /\ zb_rad = 5 /\ row.ZoneA = 3 /\ row.ZoneB = 5) =>
                            row.Ratio = Fin(20, 63)

C11_Witness ==
    /\ pc = "shadow_done"
    /\ za_rad = 2 /\ zb_rad = 5
    /\ \E date \in DOMAIN daily_stats :
          /\ daily_stats[date].ZoneA = 3 /\ daily_stats[date].ZoneB = 5
          /\ daily_stats[date].Ratio = Fin(20, 63)

\* The z-score and the metric exist once the series is scored.
Scored == pc = "shadow_scored"

\* The sums of the first n ratios of a frame of whole-number ratios, and of
\* their squares.
RECURSIVE SumRatios(_, _)
SumRatios(stats, n) == IF n = 0 THEN 0 ELSE stats[n].Ratio.n + SumRatios(stats, n - 1)

RECURSIVE SumSquares(_, _)
SumSquares(stats, n) ==
    IF n = 0 THEN 0 ELSE stats[n].Ratio.n * stats[n].Ratio.n + SumSquares(stats, n - 1)

Scenario == RatioFrame(<<1, 1, 1, 1, 5>>)

\* C12: the z-score is (latestRatio - mean) / standardDeviation of the daily
\* ratios, the standard deviation being the sample one (n - 1 in the
\* divisor): with n ratios of sum S1 and sum of squares S2 and the latest
\* ratio x, the mean is S1/n and z has the sign of n*x - S1 and the square
\* (n*x - S1)^2 * (n - 1) / (n * (n*S2 - S1^2)).  The series
\* [1, 1, 1, 1, 5] yields the mean 1.8 and z = sqrt(3.2), about 1.79.
C12_ZScoreSampleDeviation ==
    (Scored /\ Len(daily_stats) > 1) =>
        LET n == Len(daily_stats)
            x == daily_stats[n].Ratio.n
            S1 == SumRatios(daily_stats, n)
            D == n * SumSquares(daily_stats, n) - S1 * S1
        IN  /\ mean_ratio = Fin(S1, n)
            /\ D > 0 =>
                  /\ z_score.sgn = (IF n * x > S1 THEN 1 ELSE IF n * x < S1 THEN -1 ELSE 0)
                  /\ z_score.sq = Fin((n * x - S1) * (n * x - S1) * (n - 1), n * D)
            /\ daily_stats = Scenario =>
                  mean_ratio = Fin(9, 5) /\ z_score = [sgn |-> 1, sq |-> Fin(16, 5)]

C12_Witness ==
    Scored /\ daily_stats = Scenario /\ z_score.sgn = 1 /\ z_score.sq = Fin(16, 5)

\* C12 as stated: the series [1, 1, 1, 1, 5] yields the mean 1.8 and, with
\* the population standard deviation 1.6, the z-score exactly 2.0.
C12_ScenarioYieldsTwo ==
    (Scored /\ daily_stats = Scenario) =>
        mean_ratio = Fin(9, 5) /\ z_score = [sgn |-> 1, sq |-> I(4)]

\* All the ratios of the frame are one number: their deviation is 0.
Constant(stats) == \A i, j \in DOMAIN stats : stats[i].Ratio = stats[j].Ratio

\* C13: the z-score is exactly 0 when the series has at most one data point,
\* no data at all included, and when the standard deviation is 0; it is
\* never the outcome of a division by zero (a NaN or an infinity).
C13_ZScoreZeroWithoutSpread ==
    Scored =>
        /\ (Len(daily_stats) <= 1 \/ Constant(daily_stats)) => z_score = ZZero
        /\ IsFinite(z_score.sq)

C13_Witness ==
    /\ Scored /\ Len(daily_stats) > 1 /\ Constant(daily_stats)
    /\ z_score = ZZero

\* The rows of df_clean of one date and one zone.
RowsAt(date, zone) == {i \in 1..Len(df_clean) : df_clean[i].Date = date /\ df_clean[i].Zone = zone}

\* C14: every date present in the classified data has a daily record with
\* both zone sums, the sum of a zone without sightings on that date being 0:
\* a date with Zone A sightings only has density_B = 0 and the ratio 0, a date
\* with Zone B sightings only has density_A = 0 and the ratio 0.
C14_AbsentZoneCountsZero ==
    pc = "shadow_done" =>
        /\ DOMAIN daily_stats = DatesOf(df_clean)
        /\ \A date \in DOMAIN daily_stats :
              LET row == daily_stats[date]
              IN  /\ RowsAt(date, ZoneA) = {} => row.ZoneA = 0
                  /\ RowsAt(date, ZoneB) = {} => row.ZoneB = 0
                  /\ (RowsAt(date, ZoneA) # {} /\ RowsAt(date, ZoneB) = {}) =>
                        row.Density_B = I(0) /\ row.Ratio = I(0)
                  /\ (RowsAt(date, ZoneA) = {} /\ RowsAt(date, ZoneB) # {}) =>
                        row.Density_A = I(0) /\ row.Ratio = I(0)

\* C15: the critical-anomaly indication is raised exactly when the z-score is
\* greater than 3.0: the banner and the red alert colour are both on when
\* z > 3.0 and both off otherwise, at z = 3.0 included.
C15_BannerAndColourAboveThree ==
    Scored =>
        LET above == z_score.sgn = 1 /\ FGt(z_score.sq, I(9))
        IN  (banner <=> above) /\ (delta_color = "red" <=> above)

\* What one response reports for a date: 1 for a sighting of the target
\* species without a count, its count for every other one; the sightings at
\* most `within` km from the centre are left out.
RECURSIVE Reported(_, _, _)
Reported(raw, date, within) ==
    IF raw = << >> THEN 0
    ELSE LET obs == Head(raw)
             counted == /\ IsCorvid(obs) /\ obs.obsDt[1] = date
                        /\ FGt(haversine(obs.loc), I(within))
         IN  (IF ~counted THEN 0 ELSE IF obs.howMany = Null THEN 1 ELSE obs.howMany[1])
             + Reported(Tail(raw), date, within)

\* C16: the daily aggregate of a (date, zone) pair is the sum of the counts
\* of the observations classified into it, an observation without a count
\* (missing or null) contributing exactly 1 and every other one its reported
\* count.
C16_DailySumOfCounts ==
    pc = "shadow_done" =>
        \A date \in DOMAIN daily_stats :
            /\ daily_stats[date].ZoneA = Reported(raw_a, date, -1)
            /\ daily_stats[date].ZoneB = Reported(raw_b, date, za_rad)

C16_Witness ==
    /\ pc = "shadow_done"
    /\ \E date \in DOMAIN daily_stats :
          /\ \E i, j \in 1..Len(raw_a) :
                /\ raw_a[i].obsDt[1] = date /\ raw_a[j].obsDt[1] = date
                /\ IsCorvid(raw_a[i]) /\ IsCorvid(raw_a[j])
                /\ raw_a[i].howMany = Null /\ raw_a[j].howMany = <<3>>
          /\ daily_stats[date].ZoneA = 4

-----------------------------------------------------------------------------
(* Properties of the session state *)

\* C17: whenever pg.run is reached, active_lat, active_lon and active_radar
\* are the Latitude, the Longitude and the Radar_ID ('KLWX' without one) of the
\* base target_base names, which is a key of bases, and the page that runs
\* reads these and no coordinates of a base selected before.
C17_ActiveFollowsTarget ==
    /\ target_base # "unset" => \E i \in 1..Len(bases) : bases[i].Base = target_base
    /\ pc \in {"main_navigation", "main_done"} =>
          \E i \in 1..Len(bases) :
              /\ bases[i].Base = target_base
              /\ active_lat = bases[i].Latitude
              /\ active_lon = bases[i].Longitude
              /\ active_radar = (IF "Radar_ID" \in DOMAIN bases[i]
                                 THEN bases[i].Radar_ID ELSE "KLWX")
              /\ pc = "main_done" =>
                    seen = [base |-> target_base, lat |-> bases[i].Latitude,
                            lon |-> bases[i].Longitude, radar |-> active_radar]

C17_Witness ==
    /\ pc = "main_done" /\ page = "home"
    /\ bases = CsvBases /\ target_base = "Whiteman AFB"
    /\ seen.lat = Fin(387303, 10000) /\ seen.lon = FNeg(Fin(935479, 10000))
    /\ seen.radar = "KLWX"

=============================================================================
